---- MODULE Spec2Model ----
(***************************************************************************)
(* A model of the two scripts of the repository:                           *)
(*   Transfers.py   converts USD transfers to INR with historical rates    *)
(*                  (specification SpecRates);                             *)
(*   stockprice.py  fetches quotes in batches, analyses the portfolio and  *)
(*                  reports on it (specifications Spec and SpecAnalyze).   *)
(*                                                                         *)
(* Numbers.  Floats are modelled by scaled integers:                       *)
(*   an exchange rate of Transfers.py is an integer count of 1e-5 INR      *)
(*   (83.12 is 8312000), so that round(rate, 4) is a real conversion;      *)
(*   a USD amount or price is a whole number of dollars;                   *)
(*   USD_TO_INR is a count of 1e-2 INR (88.57 is 8857), and an INR amount  *)
(*   of stockprice.py a count of 1e-2 INR.                                 *)
(* A missing value (pandas NaN) is the integer NaN, outside every range.   *)
(***************************************************************************)
EXTENDS Integers, Sequences, FiniteSets, TLC

VARIABLES
  \* ---- Transfers.py ----
  tpc,            \* position in the script
  df,             \* the rows: [Date, USD]
  removed_rows,   \* rows dropped by dropna
  unique_dates,   \* sorted(df['Date'].unique())
  rate_cache,     \* date -> rate
  idx,            \* the loop's i (1-based position in unique_dates)
  attempt,        \* fetch_historical_inr_rate: the loop's attempt
  hist,           \* fetch_historical_inr_rate: the window last fetched (day -> close)
  ret,            \* fetch_historical_inr_rate: the value returned
  error,          \* fetch_historical_inr_rate: the exception e last caught
  rateCol,        \* df['Exchange Rate (USD to INR)']
  inrCol,         \* df['Cash Amount (in INR)']
  calls,          \* date -> number of calls of fetch_historical_inr_rate
  stores,         \* date -> number of assignments rate_cache[date] = ...
  requests,       \* date -> number of ticker.history requests
  provenance,     \* date -> the branch that returned its rate
  loaded,         \* the rows as read from Transfers.xlsx
  t_exit_status,  \* <<>> while the script runs, then <<its exit status>>
  t_printed,      \* the kinds of message the script has printed
  outcomes,       \* fetch_historical_inr_rate: how each attempt of the call ended
  delays,         \* fetch_historical_inr_rate: the seconds slept after each failure
  pauses,         \* the 0.5 s sleeps of the rate loop so far
  \* ---- stockprice.py ----
  pc,             \* position in main / fetch_stock_data
  portfolio_df,   \* the rows: [ticker, shares_held, avg_cost_usd]
  tickers,        \* main: portfolio_df['ticker'].unique().tolist()
  stock_data,     \* fetch_stock_data: ticker -> [current_price_usd, prev_close_usd]
  failed_tickers, \* fetch_stock_data: the list of failed tickers
  i,              \* fetch_stock_data: the batch loop's i (0-based start of the batch)
  retry_count,    \* fetch_stock_data: retry_count of the running while loop
  batch_success,  \* fetch_stock_data: batch_success / success of the running loop
  data,           \* fetch_stock_data: the response last received
  retry_list,     \* fetch_stock_data: the copy failed_tickers[:] being iterated
  retry_pos,      \* fetch_stock_data: position in retry_list (1-based)
  market_data,    \* main: the map fetch_stock_data returned
  summary_df,     \* main: the table analyze_portfolio returned
  batch_requests, \* batch start -> number of yf.download requests for it
  ind_requests,   \* ticker -> number of individual history requests
  marked,         \* tickers put on failed_tickers by the batch phase
  via,            \* ticker -> the branch that recorded it in stock_data
  report,         \* create_excel_report: the totals and the percentage columns
  exit_status,    \* <<>> while the process runs, then <<its exit status>>
  printed,        \* the kinds of message the process has printed
  suggestions,    \* generate_suggestions: the notice and the two lists printed
  results,        \* analyze_portfolio: its local list results
  earlier,        \* the invocations of analyze_portfolio before the last one
  csv_file,       \* portfolio.csv: whether it exists, its columns and rows
  batches,        \* fetch_stock_data: the batches entered so far, in order
  sent,           \* fetch_stock_data: the tickers of the last yf.download request
  batch_sleeps,   \* fetch_stock_data: the BATCH_DELAY sleeps so far
  retry_sleeps    \* fetch_stock_data: the RETRY_DELAY sleeps so far

varsT == <<tpc, df, removed_rows, unique_dates, rate_cache, idx, attempt, hist,
           ret, error, rateCol, inrCol, calls, stores, requests, provenance,
           loaded, t_exit_status, t_printed, outcomes, delays, pauses>>

varsS == <<pc, portfolio_df, tickers, stock_data, failed_tickers, i, retry_count,
           batch_success, data, retry_list, retry_pos, market_data, summary_df,
           batch_requests, ind_requests, marked, via, report, exit_status,
           printed, suggestions, results, earlier, csv_file, batches, sent,
           batch_sleeps, retry_sleeps>>

vars == <<varsT, varsS>>

------------------------------------------------------------------------------
(* Values *)

NaN == -2000000000

\* Bounds of the model.
MaxDay  == 3    \* the data source knows days 1..MaxDay
MaxRows == 2    \* rows of Transfers.xlsx

Days       == 1..MaxDay
QueryDates == 2..MaxDay               \* dates of the transfers
Closes     == {8312000, 8345678}      \* 83.12 and 83.45678
USDAmounts == {100}

max_retries == 3
FALLBACK_RATE == 8300000              \* 83.0

\* round(x, 4) of a rate counted in 1e-5: the nearest multiple of 10, a tie
\* going to the even neighbour.
Round4(x) ==
  LET q == x \div 10
      r == x % 10
  IN  IF r < 5 THEN q * 10
      ELSE IF r > 5 THEN (q + 1) * 10
      ELSE IF q % 2 = 0 THEN q * 10 ELSE (q + 1) * 10

\* (usd * rate).round(2): usd in dollars, rate in 1e-5 INR, the result in 1e-2 INR.
Round2(x) ==
  LET q == x \div 1000
      r == x % 1000
  IN  IF r < 500 THEN q
      ELSE IF r > 500 THEN q + 1
      ELSE IF q % 2 = 0 THEN q ELSE q + 1

Min(S) == CHOOSE x \in S : \A y \in S : x <= y
Max(S) == CHOOSE x \in S : \A y \in S : y <= x

RECURSIVE SortedSeq(_)
SortedSeq(S) == IF S = {} THEN <<>> ELSE <<Min(S)>> \o SortedSeq(S \ {Min(S)})

SeqRange(s) == {s[k] : k \in 1..Len(s)}

\* The windows the data source can answer with: any days, any closes.
Windows == UNION {[S -> Closes] : S \in SUBSET Days}
EmptyWindow == <<>>

------------------------------------------------------------------------------
(* Transfers.py *)

\* lines 36-58: the value picked from a non-empty window.
SelectBranch(h, d) ==
  IF d \in DOMAIN h THEN "exact"
  ELSE IF \E x \in DOMAIN h : x <= d THEN "latest-before"
  ELSE "earliest-available"

\* A variant that takes the oldest observation on or before the date.
SelectCloseOldestBefore(h, d) ==
  IF d \in DOMAIN h THEN h[d]
  ELSE IF \E x \in DOMAIN h : x <= d
       THEN h[Min({x \in DOMAIN h : x <= d})]
       ELSE h[Min(DOMAIN h)]

SelectClose(h, d) ==
  IF d \in DOMAIN h THEN h[d]
  ELSE IF \E x \in DOMAIN h : x <= d
       THEN h[Max({x \in DOMAIN h : x <= d})]
       ELSE h[Min(DOMAIN h)]

RateFromWindow(h, d) == Round4(SelectClose(h, d))

\* line 119: df.dropna(subset=['Cash Amount (in USD)'])
DropNa(rows) == SelectSeq(rows, LAMBDA r : r.USD # NaN)

\* A variant that keeps one entry per row instead of one per distinct date.
DatesOfAllRows(rows) == [j \in 1..Len(rows) |-> rows[j].Date]

\* line 135
UniqueDates(rows) == SortedSeq({rows[k].Date : k \in 1..Len(rows)})

Rows == [Date : QueryDates, USD : USDAmounts \cup {NaN}]
Inputs == UNION {[1..n -> Rows] : n \in 0..MaxRows}

\* How a process ends: exit() is called without an argument, the script or
\* main runs to its end, or an exception nobody catches ends it with a traceback.
Exit == <<0>>
NormalEnd == <<0>>
Traceback == <<1>>

\* line 87
required_cols == {"Date", "Cash Amount (in USD)"}

InitT ==
  /\ tpc = "load"
  /\ df = <<>>
  /\ loaded = <<>>
  /\ removed_rows = 0
  /\ unique_dates = <<>>
  /\ rate_cache = <<>>
  /\ idx = 1
  /\ attempt = 0
  /\ hist = EmptyWindow
  /\ ret = 0
  /\ error = "none"
  /\ rateCol = <<>>
  /\ inrCol = <<>>
  /\ calls = [d \in QueryDates |-> 0]
  /\ stores = [d \in QueryDates |-> 0]
  /\ requests = [d \in QueryDates |-> 0]
  /\ provenance = <<>>
  /\ t_exit_status = <<>>
  /\ t_printed = {}
  /\ outcomes = <<>>
  /\ delays = <<>>
  /\ pauses = 0

\* lines 81-95: Transfers.xlsx is read and has the required columns.
LoadData ==
  /\ UNCHANGED <<varsS, delays, pauses, outcomes, t_exit_status>>
  /\ tpc = "load"
  /\ \E rows \in Inputs :
       /\ df' = rows
       /\ loaded' = rows
  /\ t_printed' = t_printed \cup {"loaded", "required columns found"}
  /\ tpc' = "preprocess"
  /\ UNCHANGED <<removed_rows, unique_dates, rate_cache, idx, attempt, hist, ret,
                 error, rateCol, inrCol, calls, stores, requests, provenance>>

\* The three fatal ends of the load step print a message and call exit();
\* SystemExit is no Exception, so the except clause of line 100 lets it pass.
LoadFails(message) ==
  /\ UNCHANGED <<varsS, delays, pauses, outcomes, loaded>>
  /\ t_printed' = t_printed \cup message
  /\ t_exit_status' = Exit
  /\ tpc' = "exited"
  /\ UNCHANGED <<df, removed_rows, unique_dates, rate_cache, idx, attempt, hist,
                 ret, error, rateCol, inrCol, calls, stores, requests, provenance>>

\* lines 83, 97-99: Transfers.xlsx does not exist.
LoadFileNotFound ==
  /\ tpc = "load"
  /\ LoadFails({"file not found"})

\* lines 83-93: a required column is missing, for any columns the file has.
LoadMissingColumns ==
  /\ tpc = "load"
  /\ \E columns \in SUBSET required_cols :
       /\ required_cols \ columns # {}
       /\ LoadFails({"loaded", "missing required columns"})

\* lines 83, 100-102: reading the file raises another exception.
LoadUnexpectedError ==
  /\ tpc = "load"
  /\ LoadFails({"unexpected error while reading file"})

\* lines 111-135
Preprocess ==
  /\ UNCHANGED <<varsS, delays, pauses, outcomes, loaded, t_exit_status>>
  /\ tpc = "preprocess"
  /\ t_printed' = t_printed \cup
       (IF Len(df) - Len(DropNa(df)) > 0 THEN {"removed rows"} ELSE {})
  /\ df' = DropNa(df)
  /\ removed_rows' = Len(df) - Len(DropNa(df))
  /\ unique_dates' = UniqueDates(DropNa(df))
  /\ tpc' = "loop"
  /\ UNCHANGED <<rate_cache, idx, attempt, hist, ret, error, rateCol, inrCol,
                 calls, stores, requests, provenance>>

\* lines 141-143: the loop takes the next date and calls the fetch function.
CallFetch ==
  /\ UNCHANGED <<varsS, pauses, loaded, t_exit_status, t_printed>>
  /\ tpc = "loop"
  /\ idx <= Len(unique_dates)
  /\ calls' = [calls EXCEPT ![unique_dates[idx]] = @ + 1]
  /\ attempt' = 0
  /\ outcomes' = <<>>
  /\ delays' = <<>>
  /\ hist' = EmptyWindow
  /\ error' = "none"
  /\ tpc' = "attempt"
  /\ UNCHANGED <<df, removed_rows, unique_dates, rate_cache, idx, ret, rateCol,
                 inrCol, stores, requests, provenance>>

\* A variant that waits the same 2 seconds after every failure.
FixedDelay(attempt_index) == 2

\* line 67: delay = 2 ** attempt, in seconds
Backoff(attempt_index) == 2 ^ attempt_index

\* A variant that lets the last failure escape instead of returning the fallback.
AfterFailureReraises(d) ==
  /\ attempt' = attempt + 1
  /\ delays' = IF attempt < max_retries - 1
                 THEN Append(delays, Backoff(attempt)) ELSE delays
  /\ tpc' = IF attempt + 1 < max_retries THEN "attempt" ELSE "aborted"
  /\ UNCHANGED <<ret, provenance>>

\* lines 62-72: an attempt that raised; the code sleeps before the next one,
\* and after the last one the fallback is returned.
AfterFailure(d) ==
  /\ attempt' = attempt + 1
  /\ delays' = IF attempt < max_retries - 1
                 THEN Append(delays, Backoff(attempt)) ELSE delays
  /\ IF attempt + 1 < max_retries
       THEN /\ tpc' = "attempt"
            /\ UNCHANGED <<ret, provenance>>
       ELSE /\ tpc' = "return"
            /\ ret' = FALLBACK_RATE
            /\ provenance' = (d :> "fallback") @@ provenance

\* lines 26-34 raise (the request fails)
AttemptRaises ==
  /\ UNCHANGED <<varsS, pauses, loaded, t_exit_status, t_printed>>
  /\ tpc = "attempt"
  /\ outcomes' = Append(outcomes, "raised")
  /\ LET d == unique_dates[idx] IN
       /\ requests' = [requests EXCEPT ![d] = @ + 1]
       /\ error' = "request failed"
       /\ AfterFailure(d)
  /\ UNCHANGED <<df, removed_rows, unique_dates, rate_cache, idx, hist, rateCol,
                 inrCol, calls, stores>>

\* lines 34, 59-60: the window is empty
AttemptEmpty ==
  /\ UNCHANGED <<varsS, pauses, loaded, t_exit_status, t_printed>>
  /\ tpc = "attempt"
  /\ outcomes' = Append(outcomes, "empty")
  /\ LET d == unique_dates[idx] IN
       /\ requests' = [requests EXCEPT ![d] = @ + 1]
       /\ hist' = EmptyWindow
       /\ error' = "No historical data found"
       /\ AfterFailure(d)
  /\ UNCHANGED <<df, removed_rows, unique_dates, rate_cache, idx, rateCol,
                 inrCol, calls, stores>>

\* lines 34-58: the window has data
AttemptData ==
  /\ UNCHANGED <<varsS, delays, pauses, loaded, t_exit_status, t_printed>>
  /\ tpc = "attempt"
  /\ outcomes' = Append(outcomes, "data")
  /\ \E h \in Windows :
       /\ DOMAIN h # {}
       /\ LET d == unique_dates[idx] IN
            /\ requests' = [requests EXCEPT ![d] = @ + 1]
            /\ hist' = h
            /\ ret' = RateFromWindow(h, d)
            /\ provenance' = (d :> SelectBranch(h, d)) @@ provenance
  /\ tpc' = "return"
  /\ UNCHANGED <<df, removed_rows, unique_dates, rate_cache, idx, attempt, error,
                 rateCol, inrCol, calls, stores>>

\* lines 143-150: the rate is cached; the loop sleeps 0.5 s unless it was the
\* last date.
StoreRate ==
  /\ UNCHANGED <<varsS, loaded, t_exit_status, t_printed>>
  /\ tpc = "return"
  /\ LET d == unique_dates[idx] IN
       /\ rate_cache' = (d :> ret) @@ rate_cache
       /\ stores' = [stores EXCEPT ![d] = @ + 1]
  /\ idx' = idx + 1
  /\ hist' = EmptyWindow
  /\ outcomes' = <<>>
  /\ delays' = <<>>
  /\ pauses' = IF idx < Len(unique_dates) THEN pauses + 1 ELSE pauses
  /\ tpc' = "loop"
  /\ UNCHANGED <<df, removed_rows, unique_dates, attempt, ret, error, rateCol,
                 inrCol, calls, requests, provenance>>

\* line 160: df['Date'].map(rate_cache); a date that is no key maps to NaN
MapRates(rows, cache) ==
  [k \in 1..Len(rows) |->
     IF rows[k].Date \in DOMAIN cache THEN cache[rows[k].Date] ELSE NaN]

\* lines 163-165
InrAmounts(rows, rates) ==
  [k \in 1..Len(rows) |->
     IF rates[k] = NaN THEN NaN ELSE Round2(rows[k].USD * rates[k])]

\* lines 160-224: the amounts are calculated, shown and saved, and the script ends.
Calculate ==
  /\ UNCHANGED <<varsS, delays, pauses, outcomes, loaded, t_printed>>
  /\ t_exit_status' = NormalEnd
  /\ tpc = "loop"
  /\ idx > Len(unique_dates)
  /\ rateCol' = MapRates(df, rate_cache)
  /\ inrCol' = InrAmounts(df, MapRates(df, rate_cache))
  /\ tpc' = "done"
  /\ UNCHANGED <<df, removed_rows, unique_dates, rate_cache, idx, attempt, hist,
                 ret, error, calls, stores, requests, provenance>>

------------------------------------------------------------------------------
(* stockprice.py: configuration and the data source *)

USD_TO_INR  == 8857     \* 88.57
MAX_RETRIES == 3
BATCH_SIZE  == 10

\* Bounds of the model.
MaxTickers == 11   \* distinct tickers of portfolio.csv
MaxObs     == 3    \* observations (rows) of one response

Prices == {0, 1}                      \* closing prices the data source quotes
Obs    == Prices \cup {NaN}
Series(L) == [1..L -> Obs]
AllSeries == UNION {Series(L) : L \in 0..MaxObs}

\* The data source answers with any series for these tickers and with complete
\* data for the others: the first ticker of the first batch and the first
\* ticker of the second batch (alone in it in an 11-ticker portfolio).
Flaky == {1, BATCH_SIZE + 1}
Regular(L) == [j \in 1..L |-> 1]

NoData == [kind |-> "none", close |-> <<>>]

\* pandas unique(): the first occurrence of each value, in order.
Unique(s) ==
  LET firsts == {p \in 1..Len(s) : \A q \in 1..(p - 1) : s[q] # s[p]}
  IN  [k \in 1..Cardinality(firsts) |->
         s[CHOOSE p \in firsts : Cardinality({q \in firsts : q < p}) = k - 1]]

\* A variant that leaves the list as it is.
RemoveNothing(s, x) == s

\* list.remove(x): without the first occurrence of x.
RECURSIVE Remove(_, _)
Remove(s, x) ==
  IF s = <<>> THEN <<>>
  ELSE IF Head(s) = x THEN Tail(s) ELSE <<Head(s)>> \o Remove(Tail(s), x)

\* Series.dropna()
DropNaSeries(s) == SelectSeq(s, LAMBDA x : x # NaN)

\* A variant whose slice takes one ticker more, the first of the next batch.
BatchOverlapping(tks, start) ==
  SubSeq(tks, start + 1, IF start + BATCH_SIZE + 1 < Len(tks) THEN start + BATCH_SIZE + 1 ELSE Len(tks))

\* lines 46: tickers[i:i + BATCH_SIZE]
Batch(tks, start) ==
  SubSeq(tks, start + 1, IF start + BATCH_SIZE < Len(tks) THEN start + BATCH_SIZE ELSE Len(tks))

\* iloc[-1] and iloc[-2] of a series of at least two observations
LastTwo(s) == [current_price_usd |-> s[Len(s)], prev_close_usd |-> s[Len(s) - 1]]

------------------------------------------------------------------------------
(* stockprice.py: fetch_stock_data *)

\* lines 58-75: what the single-ticker branch takes from the Close series.
SingleQuote(s) == LastTwo(s)
SingleOk(s) == Len(s) >= 2

\* A variant that accepts a ticker only if every column of the response is good.
MultiOkWholeBatch(close, t) ==
  /\ t \in DOMAIN close
  /\ \A u \in DOMAIN close :
       Len(close[u]) >= 2 /\ Len(DropNaSeries(close[u])) >= 2

\* lines 80-106: what the multi-ticker branch takes from a ticker's column;
\* a ticker without a column raises (KeyError) inside the per-ticker try.
MultiOk(close, t) ==
  /\ t \in DOMAIN close
  /\ Len(close[t]) >= 2
  /\ Len(DropNaSeries(close[t])) >= 2
MultiQuote(close, t) == LastTwo(DropNaSeries(close[t]))

\* lines 139-150: what the individual retry takes from the ticker's history.
IndividualOk(s) == Len(DropNaSeries(s)) >= 2
IndividualQuote(s) == LastTwo(DropNaSeries(s))

\* f @@ g restricted to what g adds or replaces: dict assignment for every key of g.
Assign(d, g) == [t \in DOMAIN d \cup DOMAIN g |-> IF t \in DOMAIN g THEN g[t] ELSE d[t]]

\* A variant whose loop goes on until a request succeeds.
BatchLoopUnbounded == ~batch_success

\* line 52: the condition of the batch's while loop.
BatchLoopRuns == retry_count < MAX_RETRIES /\ ~batch_success

\* A variant whose loop goes on after a success.
RetryLoopIgnoresSuccess == retry_count < MAX_RETRIES

\* line 133: the condition of the individual retry's while loop (success is
\* kept in batch_success).
RetryLoopRuns == retry_count < MAX_RETRIES /\ ~batch_success

\* lines 45-50: the for loop enters a batch.
BatchBegin ==
  /\ UNCHANGED varsT
  /\ pc = "for"
  /\ i < Len(tickers)
  /\ batches' = Append(batches, Batch(tickers, i))
  /\ retry_count' = 0
  /\ batch_success' = FALSE
  /\ pc' = "while"
  /\ UNCHANGED <<report, exit_status, printed, suggestions, results, earlier, csv_file, sent, batch_sleeps, retry_sleeps, portfolio_df, tickers, stock_data, failed_tickers, i, data,
                 retry_list, retry_pos, market_data, summary_df, batch_requests,
                 ind_requests, marked, via>>

\* lines 52-55, 113-120: the combined request (or the code handling it) raises.
BatchRaises ==
  /\ UNCHANGED varsT
  /\ pc = "while"
  /\ BatchLoopRuns
  /\ batch_requests' = [batch_requests EXCEPT ![i] = @ + 1]
  /\ data' = [kind |-> "exception", close |-> <<>>]
  /\ sent' = Batch(tickers, i)
  /\ retry_count' = retry_count + 1
  /\ retry_sleeps' = IF retry_count + 1 < MAX_RETRIES THEN retry_sleeps + 1 ELSE retry_sleeps
  /\ IF retry_count + 1 < MAX_RETRIES
       THEN UNCHANGED <<failed_tickers, marked>>
       ELSE /\ failed_tickers' = failed_tickers \o Batch(tickers, i)
            /\ marked' = marked \cup SeqRange(Batch(tickers, i))
  /\ UNCHANGED <<report, exit_status, printed, suggestions, results, earlier, csv_file, batches, batch_sleeps, pc, portfolio_df, tickers, stock_data, i, batch_success,
                 retry_list, retry_pos, market_data, summary_df, ind_requests, via>>

\* lines 60, 73-75, 78, 107-111: a response that is empty or has no Close.
BatchNoClose ==
  /\ UNCHANGED varsT
  /\ pc = "while"
  /\ BatchLoopRuns
  /\ batch_requests' = [batch_requests EXCEPT ![i] = @ + 1]
  /\ data' = [kind |-> "no close", close |-> <<>>]
  /\ failed_tickers' = failed_tickers \o Batch(tickers, i)
  /\ marked' = marked \cup SeqRange(Batch(tickers, i))
  /\ sent' = Batch(tickers, i)
  /\ batch_success' = TRUE
  /\ UNCHANGED <<report, exit_status, printed, suggestions, results, earlier, csv_file, batches, batch_sleeps, retry_sleeps, pc, portfolio_df, tickers, stock_data, i, retry_count,
                 retry_list, retry_pos, market_data, summary_df, ind_requests, via>>

\* lines 58-72: a response with Close data for a batch of one ticker.
BatchSingleData ==
  /\ UNCHANGED varsT
  /\ pc = "while"
  /\ BatchLoopRuns
  /\ Len(Batch(tickers, i)) = 1
  /\ LET t == Batch(tickers, i)[1] IN
     \E s \in AllSeries :
       /\ Len(s) >= 1
       /\ t \notin Flaky => s = Regular(Len(s))
       /\ data' = [kind |-> "data", close |-> (t :> s)]
       /\ IF SingleOk(s)
            THEN /\ stock_data' = Assign(stock_data, t :> SingleQuote(s))
                 /\ via' = Assign(via, t :> "single")
                 /\ UNCHANGED <<failed_tickers, marked>>
            ELSE /\ failed_tickers' = Append(failed_tickers, t)
                 /\ marked' = marked \cup {t}
                 /\ UNCHANGED <<stock_data, via>>
  /\ batch_requests' = [batch_requests EXCEPT ![i] = @ + 1]
  /\ sent' = Batch(tickers, i)
  /\ batch_success' = TRUE
  /\ UNCHANGED <<report, exit_status, printed, suggestions, results, earlier, csv_file, batches, batch_sleeps, retry_sleeps, pc, portfolio_df, tickers, i, retry_count, retry_list, retry_pos,
                 market_data, summary_df, ind_requests>>

\* lines 76-106: a response with Close data for a batch of several tickers.
BatchMultiData ==
  /\ UNCHANGED varsT
  /\ pc = "while"
  /\ BatchLoopRuns
  /\ Len(Batch(tickers, i)) > 1
  /\ LET b == Batch(tickers, i)
         flaky == SeqRange(b) \cap Flaky
     IN
     \E L \in 1..MaxObs : \E missing \in SUBSET flaky :
     \E cols \in [flaky \ missing -> Series(L)] :
       LET close == [t \in SeqRange(b) \ missing |->
                       IF t \in Flaky THEN cols[t] ELSE Regular(L)]
           good(t) == MultiOk(close, t)
           bad(t) == ~MultiOk(close, t)
       IN  /\ data' = [kind |-> "data", close |-> close]
           /\ stock_data' = Assign(stock_data,
                                   [t \in {x \in SeqRange(b) : good(x)} |-> MultiQuote(close, t)])
           /\ via' = Assign(via, [t \in {x \in SeqRange(b) : good(x)} |-> "multi"])
           /\ failed_tickers' = failed_tickers \o SelectSeq(b, bad)
           /\ marked' = marked \cup {x \in SeqRange(b) : bad(x)}
  /\ batch_requests' = [batch_requests EXCEPT ![i] = @ + 1]
  /\ sent' = Batch(tickers, i)
  /\ batch_success' = TRUE
  /\ UNCHANGED <<report, exit_status, printed, suggestions, results, earlier, csv_file, batches, batch_sleeps, retry_sleeps, pc, portfolio_df, tickers, i, retry_count, retry_list, retry_pos,
                 market_data, summary_df, ind_requests>>

\* lines 52, 122-124: the while loop ends; the code sleeps BATCH_DELAY unless
\* this was the last batch, and the for loop goes on.
BatchEnd ==
  /\ UNCHANGED varsT
  /\ pc = "while"
  /\ ~BatchLoopRuns
  /\ i' = i + BATCH_SIZE
  /\ data' = NoData
  /\ sent' = <<>>
  /\ batch_sleeps' = IF i + BATCH_SIZE < Len(tickers) THEN batch_sleeps + 1 ELSE batch_sleeps
  /\ pc' = "for"
  /\ UNCHANGED <<report, exit_status, printed, suggestions, results, earlier, csv_file, batches, retry_sleeps, portfolio_df, tickers, stock_data, failed_tickers, retry_count,
                 batch_success, retry_list, retry_pos, market_data, summary_df,
                 batch_requests, ind_requests, marked, via>>

\* lines 127-129: all batches done; the failed tickers are copied for the retry.
RetryStart ==
  /\ UNCHANGED varsT
  /\ pc = "for"
  /\ i >= Len(tickers)
  /\ retry_list' = failed_tickers
  /\ retry_pos' = 1
  /\ pc' = "retry_for"
  /\ UNCHANGED <<report, exit_status, printed, suggestions, results, earlier, csv_file, batches, sent, batch_sleeps, retry_sleeps, portfolio_df, tickers, stock_data, failed_tickers, i, retry_count,
                 batch_success, data, market_data, summary_df, batch_requests,
                 ind_requests, marked, via>>

\* lines 129-131
RetryBegin ==
  /\ UNCHANGED varsT
  /\ pc = "retry_for"
  /\ retry_pos <= Len(retry_list)
  /\ retry_count' = 0
  /\ batch_success' = FALSE
  /\ pc' = "retry_while"
  /\ UNCHANGED <<report, exit_status, printed, suggestions, results, earlier, csv_file, batches, sent, batch_sleeps, retry_sleeps, portfolio_df, tickers, stock_data, failed_tickers, i, data,
                 retry_list, retry_pos, market_data, summary_df, batch_requests,
                 ind_requests, marked, via>>

\* lines 134-137, 159-164: the individual request raises.
IndividualRaises ==
  /\ UNCHANGED varsT
  /\ pc = "retry_while"
  /\ RetryLoopRuns
  /\ retry_list[retry_pos] \in Flaky
  /\ ind_requests' = [ind_requests EXCEPT ![retry_list[retry_pos]] = @ + 1]
  /\ data' = [kind |-> "exception", close |-> <<>>]
  /\ retry_count' = retry_count + 1
  /\ retry_sleeps' = IF retry_count + 1 < MAX_RETRIES THEN retry_sleeps + 1 ELSE retry_sleeps
  /\ UNCHANGED <<report, exit_status, printed, suggestions, results, earlier, csv_file, batches, sent, batch_sleeps, pc, portfolio_df, tickers, stock_data, failed_tickers, i,
                 batch_success, retry_list, retry_pos, market_data, summary_df,
                 batch_requests, marked, via>>

\* lines 139, 153-157: the history is empty or has no Close.
IndividualNoClose ==
  /\ UNCHANGED varsT
  /\ pc = "retry_while"
  /\ RetryLoopRuns
  /\ retry_list[retry_pos] \in Flaky
  /\ ind_requests' = [ind_requests EXCEPT ![retry_list[retry_pos]] = @ + 1]
  /\ data' = [kind |-> "no close", close |-> <<>>]
  /\ retry_count' = retry_count + 1
  /\ retry_sleeps' = IF retry_count + 1 < MAX_RETRIES THEN retry_sleeps + 1 ELSE retry_sleeps
  /\ UNCHANGED <<report, exit_status, printed, suggestions, results, earlier, csv_file, batches, sent, batch_sleeps, pc, portfolio_df, tickers, stock_data, failed_tickers, i,
                 batch_success, retry_list, retry_pos, market_data, summary_df,
                 batch_requests, marked, via>>

\* lines 139-157: the history has Close data.
IndividualData ==
  /\ UNCHANGED varsT
  /\ pc = "retry_while"
  /\ RetryLoopRuns
  /\ LET t == retry_list[retry_pos] IN
     \E s \in AllSeries :
       /\ Len(s) >= 1
       /\ t \notin Flaky => s = Regular(MaxObs)
       /\ data' = [kind |-> "data", close |-> (t :> s)]
       /\ ind_requests' = [ind_requests EXCEPT ![t] = @ + 1]
       /\ IF IndividualOk(s)
            THEN /\ stock_data' = Assign(stock_data, t :> IndividualQuote(s))
                 /\ via' = Assign(via, t :> "individual")
                 /\ failed_tickers' = Remove(failed_tickers, t)
                 /\ batch_success' = TRUE
                 /\ UNCHANGED <<retry_count, retry_sleeps>>
            ELSE /\ retry_count' = retry_count + 1
                 /\ retry_sleeps' = IF retry_count + 1 < MAX_RETRIES
                                      THEN retry_sleeps + 1 ELSE retry_sleeps
                 /\ UNCHANGED <<stock_data, via, failed_tickers, batch_success>>
  /\ UNCHANGED <<report, exit_status, printed, suggestions, results, earlier, csv_file, batches, sent, batch_sleeps, pc, portfolio_df, tickers, i, retry_list, retry_pos, market_data,
                 summary_df, batch_requests, marked>>

\* line 133: the while loop ends; the for loop takes the next failed ticker.
RetryEnd ==
  /\ UNCHANGED varsT
  /\ pc = "retry_while"
  /\ ~RetryLoopRuns
  /\ retry_pos' = retry_pos + 1
  /\ data' = NoData
  /\ pc' = "retry_for"
  /\ UNCHANGED <<report, exit_status, printed, suggestions, results, earlier, csv_file, batches, sent, batch_sleeps, retry_sleeps, portfolio_df, tickers, stock_data, failed_tickers, i, retry_count,
                 batch_success, retry_list, market_data, summary_df,
                 batch_requests, ind_requests, marked, via>>

\* lines 166-170 and main line 454: the map is returned.
ReturnData ==
  /\ UNCHANGED varsT
  /\ pc = "retry_for"
  /\ retry_pos > Len(retry_list)
  /\ market_data' = stock_data
  /\ pc' = "filter"
  /\ UNCHANGED <<report, exit_status, printed, suggestions, results, earlier, csv_file, batches, sent, batch_sleeps, retry_sleeps, portfolio_df, tickers, stock_data, failed_tickers, i, retry_count,
                 batch_success, data, retry_list, retry_pos, summary_df, batch_requests,
                 ind_requests, marked, via>>

------------------------------------------------------------------------------
(* stockprice.py: analyze_portfolio and create_excel_report *)

\* float arithmetic on values that may be NaN
FSub(a, b) == IF a = NaN \/ b = NaN THEN NaN ELSE a - b
\* A variant that adds where the code multiplies.
FAddInstead(a, b) == IF a = NaN \/ b = NaN THEN NaN ELSE a + b

FMul(a, b) == IF a = NaN \/ b = NaN THEN NaN ELSE a * b

\* a / b * 100, kept exact as the fraction num/den; NaN when an operand is.
\* den = 0 stands for the non-finite results of a numpy division by zero.
Percent(a, b) == [num |-> FMul(a, 100), den |-> b]
ZeroPercent == [num |-> 0, den |-> 1]

\* A variant that converts the per-share change without the share count.
DailyChangePerShare(daily_change_usd, shares, exchange_rate) ==
  FMul(daily_change_usd, exchange_rate)

\* line 199
DailyChangeInr(daily_change_usd, shares, exchange_rate) ==
  FMul(FMul(daily_change_usd, shares), exchange_rate)

\* lines 181-215: the row of one position that has a quote.
Metrics(row, q, exchange_rate) ==
  LET shares == row.shares_held
      avg_cost_usd == row.avg_cost_usd
      current_price_usd == q.current_price_usd
      prev_close_usd == q.prev_close_usd
      daily_change_usd == FSub(current_price_usd, prev_close_usd)
      current_value_usd == FMul(current_price_usd, shares)
      total_investment_usd == FMul(avg_cost_usd, shares)
      total_gain_loss_usd == FSub(current_value_usd, total_investment_usd)
  IN  [Ticker |-> row.ticker,
       Shares |-> shares,
       AvgCost |-> avg_cost_usd,
       CurrentPrice |-> current_price_usd,
       PrevClose |-> prev_close_usd,
       DailyChangePct |-> Percent(daily_change_usd, prev_close_usd),
       DailyChangeINR |-> DailyChangeInr(daily_change_usd, shares, exchange_rate),
       InvestmentUSD |-> total_investment_usd,
       CurrentValueUSD |-> current_value_usd,
       InvestmentINR |-> FMul(total_investment_usd, exchange_rate),
       CurrentValueINR |-> FMul(current_value_usd, exchange_rate),
       GainLossUSD |-> total_gain_loss_usd,
       GainLossINR |-> FMul(total_gain_loss_usd, exchange_rate)]

\* line 188: the division of two Python floats raises ZeroDivisionError when
\* the previous close is 0.
RowRaises(row, md) ==
  /\ row.ticker \in DOMAIN md
  /\ md[row.ticker].prev_close_usd = 0

AnalysisRaises(pdf, md) == \E j \in 1..Len(pdf) : RowRaises(pdf[j], md)

\* lines 174-217: one row per position whose ticker has a quote, in order.
RECURSIVE AnalyzePortfolio(_, _, _)
AnalyzePortfolio(pdf, md, exchange_rate) ==
  IF pdf = <<>> THEN <<>>
  ELSE LET rest == AnalyzePortfolio(Tail(pdf), md, exchange_rate)
           row == Head(pdf)
       IN  IF row.ticker \in DOMAIN md
             THEN <<Metrics(row, md[row.ticker], exchange_rate)>> \o rest
             ELSE rest

\* Series.sum(): NaN entries are skipped.
RECURSIVE SumSkipNa(_)
SumSkipNa(s) ==
  IF s = <<>> THEN 0
  ELSE (IF Head(s) = NaN THEN 0 ELSE Head(s)) + SumSkipNa(Tail(s))

\* line 226
TotalGainLossPct(total_gain_loss_usd, total_investment_usd) ==
  IF total_investment_usd > 0
    THEN Percent(total_gain_loss_usd, total_investment_usd)
    ELSE ZeroPercent

\* A variant that takes each share of the total of the other rows.
ShareOfTheOthers(column, total) ==
  [j \in DOMAIN column |-> Percent(column[j], FSub(total, column[j]))]

\* lines 233-234: column / total * 100
ShareOfTotal(column, total) ==
  [j \in DOMAIN column |-> Percent(column[j], total)]

\* lines 223-234
ExcelTotals(tbl) ==
  LET rows == 1..Len(tbl)
      total_investment_usd == SumSkipNa([j \in rows |-> tbl[j].InvestmentUSD])
      total_current_value_usd == SumSkipNa([j \in rows |-> tbl[j].CurrentValueUSD])
      total_gain_loss_usd == SumSkipNa([j \in rows |-> tbl[j].GainLossUSD])
      total_investment_inr == SumSkipNa([j \in rows |-> tbl[j].InvestmentINR])
      total_current_value_inr == SumSkipNa([j \in rows |-> tbl[j].CurrentValueINR])
      total_gain_loss_inr == SumSkipNa([j \in rows |-> tbl[j].GainLossINR])
  IN  [made |-> TRUE,
       total_investment_usd |-> total_investment_usd,
       total_current_value_usd |-> total_current_value_usd,
       total_gain_loss_usd |-> total_gain_loss_usd,
       total_gain_loss_pct |-> TotalGainLossPct(total_gain_loss_usd, total_investment_usd),
       total_investment_inr |-> total_investment_inr,
       total_current_value_inr |-> total_current_value_inr,
       total_gain_loss_inr |-> total_gain_loss_inr,
       pct_of_total_value |->
         ShareOfTotal([j \in rows |-> tbl[j].CurrentValueINR], total_current_value_inr),
       pct_of_total_investment |->
         ShareOfTotal([j \in rows |-> tbl[j].InvestmentINR], total_investment_inr)]

\* generate_suggestions has not run.
NoSuggestions == [notice |-> "none", book_profit |-> <<>>, buy_more |-> <<>>]

NoReport ==
  [made |-> FALSE, total_investment_usd |-> 0, total_current_value_usd |-> 0,
   total_gain_loss_usd |-> 0, total_gain_loss_pct |-> ZeroPercent,
   total_investment_inr |-> 0, total_current_value_inr |-> 0,
   total_gain_loss_inr |-> 0, pct_of_total_value |-> <<>>,
   pct_of_total_investment |-> <<>>]

------------------------------------------------------------------------------
(* stockprice.py: generate_suggestions *)

\* The literals of lines 423-446: -1000 INR, 50,000 INR, 2.0 %, 0 INR, -1.0 %,
\* and the 3 of head(3). INR amounts are counted in 1e-2 INR.
VolatileLimit == -100000
ProfitLimitInr == 5000000
ProfitLimitPct == 2
BuyLimitInr == 0
BuyLimitPct == -1
TopRows == 3

\* float comparisons: one with a NaN operand is false.
FGt(a, x) == a # NaN /\ a > x
FLt(a, x) == a # NaN /\ a < x

\* a percentage num/den against a whole number, and against another one.
PctDefined(f) == f.num # NaN /\ f.den # NaN /\ f.den # 0
PctGt(f, x) ==
  PctDefined(f) /\ (IF f.den > 0 THEN f.num > x * f.den ELSE f.num < x * f.den)
PctLt(f, x) ==
  PctDefined(f) /\ (IF f.den > 0 THEN f.num < x * f.den ELSE f.num > x * f.den)
PctLess(f, g) ==
  IF (f.den > 0) = (g.den > 0)
    THEN f.num * g.den < g.num * f.den
    ELSE f.num * g.den > g.num * f.den

\* line 421
TotalDailyChangeInr(tbl) ==
  SumSkipNa([j \in 1..Len(tbl) |-> tbl[j].DailyChangeINR])

\* A variant that also calls a total of exactly -1000 volatile.
MarketNoticeAtLimit(total_daily_change_inr) ==
  IF total_daily_change_inr <= VolatileLimit THEN "volatile" ELSE "stable"

\* lines 423-427
MarketNotice(total_daily_change_inr) ==
  IF total_daily_change_inr < VolatileLimit THEN "volatile" ELSE "stable"

\* A variant that admits a daily change of exactly 2.0 %.
IsProfitTargetAtLimit(m) ==
  /\ FGt(m.GainLossINR, ProfitLimitInr)
  /\ ~PctLt(m.DailyChangePct, ProfitLimitPct)

\* lines 429-431: the rows of profit_targets
IsProfitTarget(m) ==
  /\ FGt(m.GainLossINR, ProfitLimitInr)
  /\ PctGt(m.DailyChangePct, ProfitLimitPct)

\* A variant that admits every position that fell by more than 1.0 %.
IsBuyTargetWhateverTheGain(m) ==
  PctLt(m.DailyChangePct, BuyLimitPct)

\* lines 439-441: the rows of buy_targets
IsBuyTarget(m) ==
  /\ FLt(m.GainLossINR, BuyLimitInr)
  /\ PctLt(m.DailyChangePct, BuyLimitPct)

\* lines 432, 442: sort_values(by='Daily Change (%)') of the rows J of tbl. The
\* default sort is not stable, so rows with equal keys come in any order:
\* every ordering of J by the key is a possible result.
RECURSIVE SortedOrders(_, _, _)
SortedOrders(tbl, J, ascending) ==
  IF J = {} THEN {<<>>}
  ELSE LET Before(a, b) ==
             IF ascending
               THEN PctLess(tbl[a].DailyChangePct, tbl[b].DailyChangePct)
               ELSE PctLess(tbl[b].DailyChangePct, tbl[a].DailyChangePct)
           first == {j \in J : \A k \in J : ~Before(k, j)}
       IN  UNION {{<<j>> \o o : o \in SortedOrders(tbl, J \ {j}, ascending)} :
                    j \in first}

\* lines 436, 446: head(3)
HeadRows(s) == SubSeq(s, 1, IF Len(s) < TopRows THEN Len(s) ELSE TopRows)

\* lines 417-447: the notice, and the rows (by position in the table) listed
\* under "book profit" and under "buy more".
GenerateSuggestions ==
  /\ UNCHANGED varsT
  /\ pc = "analyzed"
  /\ LET rows == 1..Len(summary_df) IN
     \E profit_targets \in
          SortedOrders(summary_df, {j \in rows : IsProfitTarget(summary_df[j])}, FALSE),
        buy_targets \in
          SortedOrders(summary_df, {j \in rows : IsBuyTarget(summary_df[j])}, TRUE) :
       suggestions' =
         [notice |-> MarketNotice(TotalDailyChangeInr(summary_df)),
          book_profit |-> HeadRows(profit_targets),
          buy_more |-> HeadRows(buy_targets)]
  /\ pc' = "suggested"
  /\ UNCHANGED <<report, exit_status, printed, results, earlier, csv_file, batches, sent, batch_sleeps, retry_sleeps,
                 portfolio_df, tickers, stock_data, failed_tickers, i,
                 retry_count, batch_success, data, retry_list, retry_pos,
                 market_data, summary_df, batch_requests, ind_requests, marked, via>>

------------------------------------------------------------------------------
(* stockprice.py: main *)

\* line 23
csv_required_cols == {"ticker", "shares_held", "avg_cost_usd"}

NoFile == [exists |-> FALSE, columns |-> {}, rows |-> <<>>]

\* lines 30-31: the sample file written when portfolio.csv is missing (AAPL
\* and MSFT are tickers 1 and 2; the amounts are whole numbers here).
SampleFile ==
  [exists |-> TRUE, columns |-> csv_required_cols,
   rows |-> <<[ticker |-> 1, shares_held |-> 10, avg_cost_usd |-> 175],
              [ticker |-> 2, shares_held |-> 5, avg_cost_usd |-> 350]>>]

\* lines 21-27: portfolio.csv is read and has the required columns.
ReadPortfolioData ==
  /\ UNCHANGED varsT
  /\ pc = "read"
  /\ csv_file.exists
  /\ csv_required_cols \subseteq csv_file.columns
  /\ portfolio_df' = csv_file.rows
  /\ printed' = printed \cup {"loaded"}
  /\ pc' = "start"
  /\ UNCHANGED <<report, exit_status, suggestions, results, earlier, csv_file, batches, sent, batch_sleeps, retry_sleeps,
                 tickers, stock_data, failed_tickers, i, retry_count,
                 batch_success, data, retry_list, retry_pos, market_data,
                 summary_df, batch_requests, ind_requests, marked, via>>

\* lines 22, 28-33: portfolio.csv is missing; a sample is written and exit()
\* is called.
ReadFileNotFound ==
  /\ UNCHANGED varsT
  /\ pc = "read"
  /\ ~csv_file.exists
  /\ csv_file' = SampleFile
  /\ printed' = printed \cup {"file not found", "sample created"}
  /\ exit_status' = Exit
  /\ pc' = "exited"
  /\ UNCHANGED <<batches, sent, batch_sleeps, retry_sleeps, report, suggestions, results, earlier, portfolio_df,
                 tickers, stock_data, failed_tickers, i, retry_count,
                 batch_success, data, retry_list, retry_pos, market_data,
                 summary_df, batch_requests, ind_requests, marked, via>>

\* lines 24-25, 34-36: a required column is missing; the ValueError is caught,
\* printed, and exit() is called.
ReadMissingColumns ==
  /\ UNCHANGED varsT
  /\ pc = "read"
  /\ csv_file.exists
  /\ ~(csv_required_cols \subseteq csv_file.columns)
  /\ printed' = printed \cup {"error reading csv"}
  /\ exit_status' = Exit
  /\ pc' = "exited"
  /\ UNCHANGED <<report, suggestions, results, earlier, csv_file, batches, sent, batch_sleeps, retry_sleeps, portfolio_df,
                 tickers, stock_data, failed_tickers, i, retry_count,
                 batch_success, data, retry_list, retry_pos, market_data,
                 summary_df, batch_requests, ind_requests, marked, via>>

\* lines 453-454, 40-42
StartFetch ==
  /\ UNCHANGED varsT
  /\ pc = "start"
  /\ tickers' = Unique([j \in 1..Len(portfolio_df) |-> portfolio_df[j].ticker])
  /\ stock_data' = <<>>
  /\ failed_tickers' = <<>>
  /\ i' = 0
  /\ pc' = "for"
  /\ UNCHANGED <<report, exit_status, printed, suggestions, results, earlier, csv_file, batches, sent, batch_sleeps, retry_sleeps, portfolio_df, retry_count, batch_success, data, retry_list,
                 retry_pos, market_data, summary_df, batch_requests, ind_requests,
                 marked, via>>

\* lines 456-461: with no row left main prints a message and returns, which
\* ends the process.
FilterValid ==
  /\ UNCHANGED varsT
  /\ pc = "filter"
  /\ LET kept == SelectSeq(portfolio_df, LAMBDA r : r.ticker \in DOMAIN market_data)
     IN  /\ portfolio_df' = kept
         /\ pc' = IF kept = <<>> THEN "halted" ELSE "analyze"
         /\ printed' = printed \cup (IF kept = <<>> THEN {"analysis halted"} ELSE {})
         /\ exit_status' = IF kept = <<>> THEN NormalEnd ELSE exit_status
  /\ UNCHANGED <<report, suggestions, results, earlier, csv_file, batches, sent, batch_sleeps, retry_sleeps, tickers, stock_data, failed_tickers, i, retry_count,
                 batch_success, data, retry_list, retry_pos, market_data,
                 summary_df, batch_requests, ind_requests, marked, via>>

\* A variant whose list results outlives the call.
ResultsOfEarlierCall(previous) == previous

\* line 174: results = [], whatever an earlier call left
EntryResults(previous) == <<>>

\* line 463: analyze_portfolio returns the table made of its list results.
Analyze ==
  /\ UNCHANGED varsT
  /\ pc = "analyze"
  /\ ~AnalysisRaises(portfolio_df, market_data)
  /\ results' = EntryResults(results)
                  \o AnalyzePortfolio(portfolio_df, market_data, USD_TO_INR)
  /\ summary_df' = results'
  /\ pc' = "analyzed"
  /\ UNCHANGED <<report, exit_status, printed, suggestions, earlier, csv_file, batches, sent, batch_sleeps, retry_sleeps, portfolio_df, tickers, stock_data, failed_tickers, i,
                 retry_count, batch_success, data, retry_list, retry_pos,
                 market_data, batch_requests, ind_requests, marked, via>>

\* line 463: analyze_portfolio raises ZeroDivisionError; nothing catches it, and
\* the process ends with a traceback.
AnalyzeRaises ==
  /\ UNCHANGED varsT
  /\ pc = "analyze"
  /\ AnalysisRaises(portfolio_df, market_data)
  /\ pc' = "crashed"
  /\ exit_status' = Traceback
  /\ UNCHANGED <<report, printed, suggestions, results, earlier, csv_file, batches, sent, batch_sleeps, retry_sleeps, portfolio_df, tickers, stock_data, failed_tickers, i,
                 retry_count, batch_success, data, retry_list, retry_pos,
                 market_data, summary_df, batch_requests, ind_requests, marked, via>>

\* lines 472-475: create_excel_report computes the totals and the percentage
\* columns; main returns and the process ends.
ExcelReport ==
  /\ UNCHANGED varsT
  /\ pc = "suggested"
  /\ report' = ExcelTotals(summary_df)
  /\ pc' = "done"
  /\ exit_status' = NormalEnd
  /\ UNCHANGED <<printed, suggestions, results, earlier, csv_file, batches, sent, batch_sleeps, retry_sleeps>>
  /\ UNCHANGED <<portfolio_df, tickers, stock_data, failed_tickers, i,
                 retry_count, batch_success, data, retry_list, retry_pos,
                 market_data, summary_df, batch_requests, ind_requests, marked, via>>

------------------------------------------------------------------------------
(* Initial states *)

IdleT ==
  /\ tpc = "idle"
  /\ df = <<>>
  /\ loaded = <<>>
  /\ removed_rows = 0
  /\ unique_dates = <<>>
  /\ rate_cache = <<>>
  /\ idx = 1
  /\ attempt = 0
  /\ hist = EmptyWindow
  /\ ret = 0
  /\ error = "none"
  /\ rateCol = <<>>
  /\ inrCol = <<>>
  /\ calls = [d \in QueryDates |-> 0]
  /\ stores = [d \in QueryDates |-> 0]
  /\ requests = [d \in QueryDates |-> 0]
  /\ provenance = <<>>
  /\ t_exit_status = <<>>
  /\ t_printed = {}
  /\ outcomes = <<>>
  /\ delays = <<>>
  /\ pauses = 0

BatchStarts == {j * BATCH_SIZE : j \in 0..(MaxTickers \div BATCH_SIZE)}

FetchIdle ==
  /\ tickers = <<>>
  /\ stock_data = <<>>
  /\ failed_tickers = <<>>
  /\ i = 0
  /\ retry_count = 0
  /\ batch_success = FALSE
  /\ data = NoData
  /\ retry_list = <<>>
  /\ retry_pos = 1
  /\ batch_requests = [b \in BatchStarts |-> 0]
  /\ ind_requests = [t \in 1..MaxTickers |-> 0]
  /\ marked = {}
  /\ via = <<>>
  /\ batches = <<>>
  /\ sent = <<>>
  /\ batch_sleeps = 0
  /\ retry_sleeps = 0

IdleS ==
  /\ pc = "idle"
  /\ portfolio_df = <<>>
  /\ FetchIdle
  /\ market_data = <<>>
  /\ summary_df = <<>>
  /\ report = NoReport
  /\ exit_status = <<>>
  /\ printed = {}
  /\ suggestions = NoSuggestions
  /\ results = <<>>
  /\ earlier = <<>>
  /\ csv_file = NoFile

\* portfolio.csv as read: one lot of one share per ticker, or two tickers
\* with a second lot of the first one, or with no cost for the second.
Lot(t) == [ticker |-> t, shares_held |-> 1, avg_cost_usd |-> 1]
\* a row whose avg_cost_usd field is empty: read_csv reads it as NaN
LotWithoutCost(t) == [ticker |-> t, shares_held |-> 1, avg_cost_usd |-> NaN]
Portfolios ==
  {[j \in 1..n |-> Lot(j)] : n \in 1..MaxTickers}
  \cup {<<Lot(1), Lot(2), Lot(1)>>}
  \cup {<<Lot(1), LotWithoutCost(2)>>}

\* portfolio.csv before the run: absent, without a required column, or good.
CsvFiles ==
  {NoFile}
  \cup {[exists |-> TRUE, columns |-> {"ticker", "shares_held"}, rows |-> <<Lot(1)>>]}
  \cup {[exists |-> TRUE, columns |-> csv_required_cols, rows |-> p] : p \in Portfolios}

InitS ==
  /\ pc = "read"
  /\ portfolio_df = <<>>
  /\ FetchIdle
  /\ market_data = <<>>
  /\ summary_df = <<>>
  /\ report = NoReport
  /\ exit_status = <<>>
  /\ printed = {}
  /\ suggestions = NoSuggestions
  /\ results = <<>>
  /\ earlier = <<>>
  /\ csv_file \in CsvFiles

\* Inputs of the analysis: positions and quotes from small sets.
MaxPositions == 2
Shares   == {0, 10}
Costs    == {0, 10}
Quotes   == {0, 100, 103}
Positions(n) == [1..n -> [ticker : 1..n, shares_held : Shares, avg_cost_usd : Costs]]
\* quotes for any of the tickers: a position may be without one
QuoteMaps(n) ==
  UNION {[D -> [current_price_usd : Quotes, prev_close_usd : Quotes]] :
           D \in SUBSET (1..n)}

InitA ==
  /\ pc = "analyze"
  /\ \E n \in 1..MaxPositions :
       /\ portfolio_df \in {p \in Positions(n) : \A j \in 1..n : p[j].ticker = j}
       /\ market_data \in QuoteMaps(n)
  /\ FetchIdle
  /\ summary_df = <<>>
  /\ report = NoReport
  /\ exit_status = <<>>
  /\ printed = {}
  /\ suggestions = NoSuggestions
  /\ results = <<>>
  /\ earlier = <<>>
  /\ csv_file = NoFile

\* Inputs of generate_suggestions: tables of up to MaxSummaryRows rows, with
\* the columns the function reads. Gain/loss and daily change in 1e-2 INR;
\* the values lie on and on both sides of each limit of the function.
MaxSummaryRows == 4
Pct(num, den) == [num |-> num, den |-> den]
SummaryRows ==
  {[GainLossINR |-> 6000000, DailyChangePct |-> Pct(300, 100), DailyChangeINR |-> 1],
   [GainLossINR |-> 6000000, DailyChangePct |-> Pct(2100, 1000), DailyChangeINR |-> 1],
   [GainLossINR |-> 6000000, DailyChangePct |-> Pct(200, 100), DailyChangeINR |-> -50000],
   [GainLossINR |-> 5000000, DailyChangePct |-> Pct(300, 100), DailyChangeINR |-> 1],
   [GainLossINR |-> -1, DailyChangePct |-> Pct(-200, 100), DailyChangeINR |-> -50000],
   [GainLossINR |-> -1, DailyChangePct |-> Pct(-300, 100), DailyChangeINR |-> 1],
   [GainLossINR |-> -1, DailyChangePct |-> Pct(-100, 100), DailyChangeINR |-> -50000],
   [GainLossINR |-> 0, DailyChangePct |-> Pct(-200, 100), DailyChangeINR |-> 1],
   [GainLossINR |-> NaN, DailyChangePct |-> Pct(NaN, 100), DailyChangeINR |-> NaN]}

SummaryTables ==
  UNION {{[j \in 1..n |-> [Ticker |-> j,
                           GainLossINR |-> f[j].GainLossINR,
                           DailyChangePct |-> f[j].DailyChangePct,
                           DailyChangeINR |-> f[j].DailyChangeINR]] :
            f \in [1..n -> SummaryRows]} : n \in 1..MaxSummaryRows}

InitG ==
  /\ pc = "analyzed"
  /\ portfolio_df = <<>>
  /\ FetchIdle
  /\ market_data = <<>>
  /\ summary_df \in SummaryTables
  /\ report = NoReport
  /\ exit_status = <<>>
  /\ printed = {}
  /\ suggestions = NoSuggestions
  /\ results = <<>>
  /\ earlier = <<>>
  /\ csv_file = NoFile

\* Inputs of repeated calls of analyze_portfolio: positions of 10 shares
\* bought at 10, quoted or not.
PureInputs ==
  UNION {[positions : {[j \in 1..n |-> [ticker |-> j, shares_held |-> 10,
                                        avg_cost_usd |-> 10]]},
          quotes : UNION {[D -> [current_price_usd : {100, 103},
                                 prev_close_usd : {100, 103}]] :
                            D \in SUBSET (1..n)}] : n \in 1..MaxPositions}

InitP ==
  /\ pc = "analyze"
  /\ \E in \in PureInputs :
       /\ portfolio_df = in.positions
       /\ market_data = in.quotes
  /\ FetchIdle
  /\ summary_df = <<>>
  /\ report = NoReport
  /\ exit_status = <<>>
  /\ printed = {}
  /\ suggestions = NoSuggestions
  /\ results = <<>>
  /\ earlier = <<>>
  /\ csv_file = NoFile

\* analyze_portfolio is called once more, with the same or with other
\* arguments; the call before is kept for comparison.
Reinvoke ==
  /\ UNCHANGED varsT
  /\ pc = "analyzed"
  /\ earlier' = <<[positions |-> portfolio_df, quotes |-> market_data,
                   table |-> summary_df]>>
  /\ \E in \in PureInputs :
       /\ portfolio_df' = in.positions
       /\ market_data' = in.quotes
  /\ pc' = "analyze"
  /\ UNCHANGED <<report, exit_status, printed, suggestions, results, csv_file, batches, sent, batch_sleeps, retry_sleeps,
                 tickers, stock_data, failed_tickers, i, retry_count,
                 batch_success, data, retry_list, retry_pos, summary_df,
                 batch_requests, ind_requests, marked, via>>

------------------------------------------------------------------------------
(* Specifications *)

InitRates == InitT /\ IdleS

NextRates ==
  \/ LoadData
  \/ LoadFileNotFound
  \/ LoadMissingColumns
  \/ LoadUnexpectedError
  \/ Preprocess
  \/ CallFetch
  \/ AttemptRaises
  \/ AttemptEmpty
  \/ AttemptData
  \/ StoreRate
  \/ Calculate

SpecRates == InitRates /\ [][NextRates]_vars

Init == IdleT /\ InitS

Next ==
  \/ ReadPortfolioData
  \/ ReadFileNotFound
  \/ ReadMissingColumns
  \/ StartFetch
  \/ BatchBegin
  \/ BatchRaises
  \/ BatchNoClose
  \/ BatchSingleData
  \/ BatchMultiData
  \/ BatchEnd
  \/ RetryStart
  \/ RetryBegin
  \/ IndividualRaises
  \/ IndividualNoClose
  \/ IndividualData
  \/ RetryEnd
  \/ ReturnData
  \/ FilterValid
  \/ Analyze
  \/ AnalyzeRaises
  \/ GenerateSuggestions
  \/ ExcelReport

Spec == Init /\ [][Next]_vars

InitAnalyze == IdleT /\ InitA

NextAnalyze ==
  \/ Analyze
  \/ AnalyzeRaises
  \/ GenerateSuggestions
  \/ ExcelReport

SpecAnalyze == InitAnalyze /\ [][NextAnalyze]_vars

InitPure == IdleT /\ InitP

NextPure ==
  \/ Analyze
  \/ Reinvoke

SpecPure == InitPure /\ [][NextPure]_vars

\* A run of either script. Each is one sequential process that keeps taking
\* its next step until it has ended.
InitFetch == InitRates \/ Init

NextFetch ==
  \/ NextRates
  \/ Next

SpecFetch == InitFetch /\ [][NextFetch]_vars /\ WF_vars(NextFetch)

InitSuggest == IdleT /\ InitG

NextSuggest == GenerateSuggestions

SpecSuggest == InitSuggest /\ [][NextSuggest]_vars

------------------------------------------------------------------------------
(* Claims about Transfers.py, checked under SpecRates *)

\* The date whose rate is being fetched or was fetched last.
CurrentDate == unique_dates[idx]
LastDate == unique_dates[idx - 1]

\* C1: when all three attempts for a date have failed, the fetch function
\* returns 83.0, rate_cache holds 83.0 for that date, and the run is not
\* aborted: the loop goes on with the next date.
C1_FallbackAfterThreeFailures ==
  /\ attempt = 3 => tpc \in {"return", "loop", "done"}
  /\ (tpc = "return" /\ attempt = 3) => ret = 8300000
  /\ (tpc = "loop" /\ idx > 1 /\ attempt = 3) =>
       /\ LastDate \in DOMAIN rate_cache
       /\ rate_cache[LastDate] = 8300000
       /\ idx <= Len(unique_dates) => ENABLED CallFetch
  /\ \A d \in DOMAIN rate_cache :
       provenance[d] = "fallback" => rate_cache[d] = 8300000

\* C1, witness: a finished run in which one date got the fallback after three
\* failed requests and a later date got a fetched rate.
C1_Witness ==
  /\ tpc = "done"
  /\ \E d1, d2 \in DOMAIN rate_cache :
       /\ d1 < d2
       /\ requests[d1] = 3
       /\ provenance[d1] = "fallback"
       /\ rate_cache[d1] = 8300000
       /\ provenance[d2] = "exact"

\* The close the claim C3 names for a non-empty window h and a date d.
C3_NamedClose(h, d) ==
  LET before == {x \in DOMAIN h : x <= d}
  IN  IF d \in DOMAIN h THEN h[d]
      ELSE IF before # {}
        THEN h[CHOOSE x \in before : \A y \in before : y <= x]
        ELSE h[CHOOSE x \in DOMAIN h : \A y \in DOMAIN h : x <= y]

\* C3 as stated: for a non-empty window the fetch function returns the close
\* of the query date, else of the most recent observation on or before it,
\* else of the earliest observation.
C3_ReturnsTheClose ==
  (tpc = "return" /\ DOMAIN hist # {}) => ret = C3_NamedClose(hist, CurrentDate)

\* C3 as amended: the value returned is that close rounded to 4 decimal
\* places (a multiple of 1e-4 at most half of 1e-4 away from the close).
C3_ReturnsTheCloseRounded ==
  (tpc = "return" /\ DOMAIN hist # {}) =>
     /\ ret % 10 = 0
     /\ ret - C3_NamedClose(hist, CurrentDate) \in -5..5

\* C3, witness: no observation for the query date, two earlier ones, and the
\* rate returned is the later one's close 83.45678 rounded to 83.4568.
C3_Witness ==
  /\ tpc = "return"
  /\ CurrentDate \notin DOMAIN hist
  /\ \E x, y \in DOMAIN hist :
       /\ x < y /\ y < CurrentDate
       /\ hist[x] = 8312000
       /\ hist[y] = 8345678
  /\ ret = 8345680

\* The dates of the rows whose amount is a number.
C8_ValidDates ==
  {loaded[j].Date : j \in {x \in 1..Len(loaded) : loaded[x].USD # NaN}}

C8_StageOver == tpc = "done" \/ (tpc = "loop" /\ idx > Len(unique_dates))

\* C8: after the rate-fetch stage rate_cache has an entry for exactly the
\* distinct dates of the valid rows, the fetch function was called once per
\* such date and its entry was assigned once (never overwritten); every row
\* gets the entry of its date, so rows of one date get one rate and no row is
\* left without a rate.
C8_OneEntryPerDistinctDate ==
  /\ \A d \in QueryDates : calls[d] <= 1 /\ stores[d] <= 1
  /\ C8_StageOver =>
       /\ DOMAIN rate_cache = C8_ValidDates
       /\ \A d \in QueryDates :
            /\ calls[d] = (IF d \in C8_ValidDates THEN 1 ELSE 0)
            /\ stores[d] = calls[d]
  /\ tpc = "done" =>
       /\ Len(rateCol) = Len(df)
       /\ \A j \in 1..Len(df) :
            /\ rateCol[j] # NaN
            /\ rateCol[j] = rate_cache[df[j].Date]
       /\ \A j1, j2 \in 1..Len(df) :
            df[j1].Date = df[j2].Date => rateCol[j1] = rateCol[j2]

\* C8, witness: a finished run with two valid rows of the same date, both
\* given the one rate cached for that date.
C8_Witness ==
  /\ tpc = "done"
  /\ Len(df) = 2
  /\ df[1].Date = df[2].Date
  /\ calls[df[1].Date] = 1
  /\ rateCol[1] = rateCol[2]
  /\ rateCol[1] = rate_cache[df[1].Date]

------------------------------------------------------------------------------
(* Claims about stockprice.py, checked under Spec and SpecAnalyze *)

CurBatch == Batch(tickers, i)
FailedSet == SeqRange(failed_tickers)
FetchOver ==
  pc \in {"filter", "halted", "analyze", "analyzed", "suggested", "crashed", "done"}

\* The non-missing closes of a series: how many, which, the last two.
ValidAt(s) == {j \in 1..Len(s) : s[j] # NaN}
ValidCount(s) == Cardinality(ValidAt(s))
ValidValues(s) == {s[j] : j \in ValidAt(s)}
LastValid(s) == s[Max(ValidAt(s))]
SecondLastValid(s) == s[Max(ValidAt(s) \ {Max(ValidAt(s))})]

\* The tickers the response held in data has just put into stock_data (a
\* ticker is requested again only while it is not in the map).
JustRecorded ==
  IF pc \in {"while", "retry_while"} /\ data.kind = "data"
    THEN DOMAIN data.close \cap DOMAIN stock_data
    ELSE {}

\* C2 as stated: a ticker enters the map only by a response that supplied at
\* least two closing values for it, its stored prices are closing values of
\* that response, and a ticker that is not in the returned map (every attempt
\* failed) has no row in the table of analyze_portfolio.
C2_NoPriceWithoutTwoCloses ==
  /\ \A t \in JustRecorded :
       /\ ValidCount(data.close[t]) >= 2
       /\ stock_data[t].current_price_usd \in ValidValues(data.close[t])
       /\ stock_data[t].prev_close_usd \in ValidValues(data.close[t])
  /\ FetchOver => FailedSet \cap DOMAIN market_data = {}
  /\ pc \in {"analyzed", "suggested", "done"} =>
       \A j \in 1..Len(summary_df) :
          /\ summary_df[j].Ticker \in DOMAIN market_data
          /\ summary_df[j].Ticker \notin FailedSet

\* C4 as stated: on every path that records a ticker, the stored current
\* price is the most recent non-missing close of the response and the stored
\* previous close the second most recent one; no missing value is stored.
C4_LastTwoValidCloses ==
  \A t \in JustRecorded :
     /\ ValidCount(data.close[t]) >= 2
     /\ stock_data[t].current_price_usd = LastValid(data.close[t])
     /\ stock_data[t].prev_close_usd = SecondLastValid(data.close[t])
     /\ stock_data[t].current_price_usd # NaN
     /\ stock_data[t].prev_close_usd # NaN

\* C5 as stated: a combined request that fails, by an exception or by a
\* response without Close data, is issued again until the batch has had 3
\* requests, and only then are the batch's tickers marked failed.
C5_FailedBatchIsRequestedAgain ==
  (pc = "while" /\ data.kind \in {"exception", "no close"}) =>
     IF batch_requests[i] < 3
       THEN /\ ~batch_success
            /\ SeqRange(CurBatch) \cap FailedSet = {}
            /\ ENABLED BatchRaises
       ELSE SeqRange(CurBatch) \subseteq FailedSet

\* C6: a ticker marked failed by the batch phase is requested individually
\* only after all batches were processed, at least once and at most 3 times
\* before the map is returned; the first individual response with two valid
\* closes records it and ends its requests; it stays on the failed list only
\* after 3 failed individual requests.
C6_FailedTickersRetriedIndividually ==
  /\ \A t \in 1..MaxTickers :
       /\ ind_requests[t] <= 3
       /\ ind_requests[t] > 0 =>
            /\ t \in marked
            /\ pc \notin {"start", "for", "while"}
            /\ i >= Len(tickers)
  /\ (pc = "retry_while" /\ data.kind = "data") =>
       LET t == retry_list[retry_pos] IN
         IF ValidCount(data.close[t]) >= 2
           THEN /\ t \in DOMAIN stock_data
                /\ t \notin FailedSet
                /\ ~ENABLED (IndividualRaises \/ IndividualNoClose \/ IndividualData)
           ELSE /\ t \notin DOMAIN stock_data
                /\ t \in FailedSet
  /\ FetchOver =>
       \A t \in SeqRange(tickers) :
          /\ t \in marked => ind_requests[t] \in 1..3
          /\ t \notin marked => ind_requests[t] = 0
          /\ t \in FailedSet => (t \in marked /\ ind_requests[t] = 3 /\ t \notin DOMAIN stock_data)
          /\ (t \in marked /\ t \notin FailedSet) =>
               (t \in DOMAIN stock_data /\ via[t] = "individual")

\* C6, witness: the map is returned; one ticker that failed in its batch was
\* recorded by its second individual request, another is still failed after 3.
C6_Witness ==
  /\ FetchOver
  /\ \E t, u \in marked :
       /\ t \in DOMAIN stock_data /\ via[t] = "individual" /\ ind_requests[t] = 2
       /\ u \in FailedSet /\ ind_requests[u] = 3

\* C7: in a multi-ticker response with Close data each ticker is judged on
\* its own column: one with fewer than two non-missing closes (or no column)
\* goes on the failed list, every other one is recorded by this response, and
\* the batch is not requested again.
C7_BatchPartialSuccess ==
  (pc = "while" /\ data.kind = "data" /\ Len(CurBatch) > 1) =>
     /\ \A t \in SeqRange(CurBatch) :
          IF t \in DOMAIN data.close /\ ValidCount(data.close[t]) >= 2
            THEN /\ t \in DOMAIN stock_data
                 /\ t \notin FailedSet
                 /\ stock_data[t].current_price_usd = LastValid(data.close[t])
            ELSE /\ t \notin DOMAIN stock_data
                 /\ t \in FailedSet
     /\ batch_success
     /\ ~ENABLED (BatchRaises \/ BatchNoClose \/ BatchMultiData)

\* C7, witness: one response after which a ticker of the batch is failed and
\* another ticker of the same batch is recorded.
C7_Witness ==
  /\ pc = "while" /\ data.kind = "data" /\ Len(CurBatch) > 1
  /\ \E t, u \in SeqRange(CurBatch) :
       /\ t \in FailedSet /\ t \notin DOMAIN stock_data
       /\ t \in DOMAIN data.close /\ ValidCount(data.close[t]) = 1
       /\ u \in DOMAIN stock_data /\ via[u] = "multi"

\* A value that is no number: what "undefined / N/A" would be reported as.
NotAvailable == [num |-> NaN, den |-> 0]

\* C9 as stated: with a quote whose previous close is 0 the analysis still
\* ends normally, that position's daily change % is the undefined value, and
\* every position with a quote has its row.
C9_ZeroPrevCloseIsUndefined ==
  (/\ pc \in {"analyzed", "suggested", "crashed", "done"}
   /\ \E j \in 1..Len(portfolio_df) :
        /\ portfolio_df[j].ticker \in DOMAIN market_data
        /\ market_data[portfolio_df[j].ticker].prev_close_usd = 0) =>
     /\ pc # "crashed"
     /\ Len(summary_df) = Len(portfolio_df)
     /\ \A j \in 1..Len(summary_df) :
          summary_df[j].PrevClose = 0 => summary_df[j].DailyChangePct = NotAvailable

\* C10 as stated: the portfolio return % is the undefined value when the total
\* investment is 0, and total gain/loss / total investment * 100 otherwise.
C10_ZeroInvestmentIsNotAvailable ==
  report.made =>
     IF report.total_investment_usd = 0
       THEN report.total_gain_loss_pct = NotAvailable
       ELSE report.total_gain_loss_pct.num * report.total_investment_usd
              = report.total_gain_loss_usd * 100 * report.total_gain_loss_pct.den

------------------------------------------------------------------------------
(* Claims about the ends of the two processes *)

\* The messages of the fatal input errors.
FatalMessages ==
  {"file not found", "error reading csv", "analysis halted",
   "missing required columns", "unexpected error while reading file"}

\* C11 as stated: a process ends with exit status 0 only when it has run to
\* completion; after a fatal input error (input file not found, required
\* columns missing, no ticker with valid market data) it has printed a message
\* and its exit status is not 0.
C11_ExitStatusZeroOnlyOnSuccess ==
  /\ exit_status = <<0>> => pc = "done"
  /\ t_exit_status = <<0>> => tpc = "done"
  /\ pc \in {"exited", "halted"} =>
       /\ printed \cap FatalMessages # {}
       /\ exit_status # <<>>
       /\ exit_status # <<0>>
  /\ tpc = "exited" =>
       /\ t_printed \cap FatalMessages # {}
       /\ t_exit_status # <<>>
       /\ t_exit_status # <<0>>

\* What fetch_historical_inr_rate returns when some attempt of the call did not
\* find an empty window: the rounded close of a window with data, or the
\* fallback after requests that raised.
C12_OtherReturns ==
  {FALLBACK_RATE}
  \cup {RateFromWindow(h, d) : h \in Windows \ {EmptyWindow}, d \in QueryDates}

\* C12 as stated: when the window was empty on every one of the three
\* attempts, the value handed to the caller tells that no data was found: it
\* is none of the values the function returns otherwise.
C12_EmptyWindowSignalsNoData ==
  (/\ tpc = "return"
   /\ Len(outcomes) = max_retries
   /\ \A k \in 1..Len(outcomes) : outcomes[k] = "empty") =>
     ret \notin C12_OtherReturns

------------------------------------------------------------------------------
(* Claims about analyze_portfolio, checked under SpecAnalyze *)

AnalysisReturned == pc \in {"analyzed", "suggested", "done"}

\* The positions that have a quote, in the order of the table.
Quoted == SelectSeq(portfolio_df, LAMBDA r : r.ticker \in DOMAIN market_data)

\* C13: the table has one row for every position that has a quote, and in it
\* investment = avg_cost * shares, current value = current price * shares,
\* gain/loss = current value - investment, daily change % = (current price -
\* previous close) / previous close * 100, and the INR investment, current
\* value and gain/loss are the USD amounts times the exchange rate, so that
\* INR gain/loss = INR current value - INR investment.
C13_MetricFormulas ==
  AnalysisReturned =>
    /\ Len(summary_df) = Len(Quoted)
    /\ \A j \in 1..Len(summary_df) :
         LET m == summary_df[j]
             p == Quoted[j]
             q == market_data[p.ticker]
         IN  /\ m.Ticker = p.ticker
             /\ m.InvestmentUSD = p.avg_cost_usd * p.shares_held
             /\ m.CurrentValueUSD = q.current_price_usd * p.shares_held
             /\ m.GainLossUSD = m.CurrentValueUSD - m.InvestmentUSD
             /\ m.DailyChangePct.den # 0
             /\ m.DailyChangePct.num * q.prev_close_usd
                  = (q.current_price_usd - q.prev_close_usd) * 100 * m.DailyChangePct.den
             /\ m.InvestmentINR = m.InvestmentUSD * USD_TO_INR
             /\ m.CurrentValueINR = m.CurrentValueUSD * USD_TO_INR
             /\ m.GainLossINR = m.GainLossUSD * USD_TO_INR
             /\ m.GainLossINR = m.CurrentValueINR - m.InvestmentINR

\* C13, witness: 10 shares bought at 10 and quoted 103 after 100: investment
\* 100, value 1030, gain 930 USD or 82370.10 INR, +3 % on the day; a second
\* position has no quote and no row.
C13_Witness ==
  /\ pc = "analyzed"
  /\ Len(portfolio_df) = 2
  /\ Len(summary_df) = 1
  /\ summary_df[1].InvestmentUSD = 100
  /\ summary_df[1].CurrentValueUSD = 1030
  /\ summary_df[1].GainLossUSD = 930
  /\ summary_df[1].GainLossINR = 8237010
  /\ summary_df[1].DailyChangePct = [num |-> 300, den |-> 100]

\* C14 as stated: the INR daily change of a position is its USD daily change,
\* current price - previous close, times the exchange rate.
C14_DailyChangeConverted ==
  AnalysisReturned =>
    \A j \in 1..Len(summary_df) :
       LET q == market_data[Quoted[j].ticker] IN
         summary_df[j].DailyChangeINR
           = (q.current_price_usd - q.prev_close_usd) * USD_TO_INR

\* C14 as amended: the INR daily change of a position is the per-share USD
\* daily change, current price - previous close, times the shares held, times
\* the exchange rate.
C14_DailyChangeOfThePosition ==
  AnalysisReturned =>
    \A j \in 1..Len(summary_df) :
       LET q == market_data[Quoted[j].ticker] IN
         summary_df[j].DailyChangeINR
           = (q.current_price_usd - q.prev_close_usd) * Quoted[j].shares_held
               * USD_TO_INR

\* C14, witness: 10 shares quoted 103 after 100 change by 30 USD, 2657.10 INR
\* (the per-share change of 3 USD is 265.71 INR).
C14_Witness ==
  /\ pc = "analyzed"
  /\ \E j \in 1..Len(summary_df) :
       /\ summary_df[j].Shares = 10
       /\ summary_df[j].CurrentPrice = 103
       /\ summary_df[j].PrevClose = 100
       /\ summary_df[j].DailyChangeINR = 265710

------------------------------------------------------------------------------
(* Claims about generate_suggestions, checked under SpecSuggest *)

Suggested == pc \in {"suggested", "done"}

Listed(list) == {list[k] : k \in 1..Len(list)}

\* a / b > c / d and a / b < c / d for positive denominators
RatioGreater(f, g) == f.num * g.den > g.num * f.den

\* The rows that qualify for the "book profit" list: gain/loss above 50,000
\* INR and daily change above 2.0 %, both strictly.
C15_Qualifies(m) ==
  /\ m.GainLossINR # NaN /\ m.GainLossINR > 5000000
  /\ m.DailyChangePct.num # NaN /\ m.DailyChangePct.num > 2 * m.DailyChangePct.den

\* C15: the "book profit" list has at most 3 rows, all of them (and only
\* then fewer than 3) qualifying rows, each listed once, in descending order
\* of daily change %; no qualifying row left out has a strictly higher daily
\* change % than a listed one.
C15_BookProfitTopThree ==
  Suggested =>
    LET list == suggestions.book_profit
        pct(j) == summary_df[j].DailyChangePct
        qualifying == {j \in 1..Len(summary_df) : C15_Qualifies(summary_df[j])}
    IN  /\ Len(list) <= 3
        /\ Listed(list) \subseteq qualifying
        /\ Cardinality(Listed(list)) = Len(list)
        /\ Len(list) < 3 => Listed(list) = qualifying
        /\ \A k, l \in 1..Len(list) : k < l => ~RatioGreater(pct(list[l]), pct(list[k]))
        /\ \A j \in qualifying \ Listed(list) :
             \A k \in 1..Len(list) : ~RatioGreater(pct(j), pct(list[k]))

\* C15, witness: four rows with a gain of 60,000 INR, three at +2.1 % and the
\* last at +3.0 %: the last one is listed first, one of the others is left out.
C15_Witness ==
  /\ pc = "suggested"
  /\ Len(summary_df) = 4
  /\ \A j \in 1..4 : summary_df[j].GainLossINR = 6000000
  /\ \A j \in 1..3 : summary_df[j].DailyChangePct = Pct(2100, 1000)
  /\ summary_df[4].DailyChangePct = Pct(300, 100)
  /\ Len(suggestions.book_profit) = 3
  /\ suggestions.book_profit[1] = 4

\* The rows that qualify for the "buy more" list: gain/loss below 0 and daily
\* change below -1.0 %, both strictly.
C16_Qualifies(m) ==
  /\ m.GainLossINR # NaN /\ m.GainLossINR < 0
  /\ m.DailyChangePct.num # NaN /\ m.DailyChangePct.num < -1 * m.DailyChangePct.den

\* C16: the "buy more" list has at most 3 rows, all of them (and only then
\* fewer than 3) qualifying rows, each listed once, in ascending order of
\* daily change % (the largest drop first); no qualifying row left out has a
\* strictly lower daily change % than a listed one; and no row is on both the
\* "buy more" and the "book profit" list.
C16_BuyMoreTopThree ==
  Suggested =>
    LET list == suggestions.buy_more
        pct(j) == summary_df[j].DailyChangePct
        qualifying == {j \in 1..Len(summary_df) : C16_Qualifies(summary_df[j])}
    IN  /\ Len(list) <= 3
        /\ Listed(list) \subseteq qualifying
        /\ Cardinality(Listed(list)) = Len(list)
        /\ Len(list) < 3 => Listed(list) = qualifying
        /\ \A k, l \in 1..Len(list) : k < l => ~RatioGreater(pct(list[k]), pct(list[l]))
        /\ \A j \in qualifying \ Listed(list) :
             \A k \in 1..Len(list) : ~RatioGreater(pct(list[k]), pct(j))
        /\ Listed(list) \cap Listed(suggestions.book_profit) = {}

\* C16, witness: four losing rows, three at -2.0 % and the last at -3.0 %:
\* the last one is listed first and one of the others is left out.
C16_Witness ==
  /\ pc = "suggested"
  /\ Len(summary_df) = 4
  /\ \A j \in 1..4 : summary_df[j].GainLossINR = -1
  /\ \A j \in 1..3 : summary_df[j].DailyChangePct = Pct(-200, 100)
  /\ summary_df[4].DailyChangePct = Pct(-300, 100)
  /\ Len(suggestions.buy_more) = 3
  /\ suggestions.buy_more[1] = 4

\* The sum of the daily changes (INR) of the first n rows of the table.
RECURSIVE C17_Sum(_)
C17_Sum(n) ==
  IF n = 0 THEN 0 ELSE summary_df[n].DailyChangeINR + C17_Sum(n - 1)

\* C17: generate_suggestions gives exactly one market notice; for a table
\* whose daily changes are all numbers it is the "volatile market" caution
\* if and only if their sum is strictly below -1000 INR, and the "stable or
\* positive" notice otherwise, a sum of exactly -1000 included.
C17_OneMarketNotice ==
  Suggested =>
    /\ suggestions.notice \in {"volatile", "stable"}
    /\ (\A j \in 1..Len(summary_df) : summary_df[j].DailyChangeINR # NaN) =>
         (suggestions.notice = "volatile" <=> C17_Sum(Len(summary_df)) < -100000)

\* C17, witness: two rows that lost 500 INR each, a sum of exactly -1000,
\* and the notice is "stable or positive".
C17_Witness ==
  /\ pc = "suggested"
  /\ Len(summary_df) = 2
  /\ summary_df[1].DailyChangeINR = -50000
  /\ summary_df[2].DailyChangeINR = -50000
  /\ suggestions.notice = "stable"

------------------------------------------------------------------------------
(* Claims about create_excel_report, checked under SpecAnalyze *)

\* The percentages of a column are fractions of one denominator d and add up
\* to 100: their numerators add up to 100 * d (they are multiples of 100, and
\* their hundredths are added up, to d).
RECURSIVE C18_SumNum(_, _)
C18_SumNum(column, n) ==
  IF n = 0 THEN 0 ELSE (column[n].num \div 100) + C18_SumNum(column, n - 1)

C18_SumsTo100(column) ==
  \E d \in {column[j].den : j \in 1..Len(column)} :
     /\ d > 0
     /\ \A j \in 1..Len(column) : column[j].den = d /\ column[j].num % 100 = 0
     /\ C18_SumNum(column, Len(column)) = d

\* C18: in a report of at least one position with a positive total current
\* value the '% of Total Value' fields add up to 100, and with a positive
\* total investment so do the '% of Total Investment' fields.
C18_PercentagesSumTo100 ==
  (report.made /\ Len(summary_df) >= 1) =>
     /\ report.total_current_value_inr > 0 => C18_SumsTo100(report.pct_of_total_value)
     /\ report.total_investment_inr > 0 => C18_SumsTo100(report.pct_of_total_investment)

\* C18, witness: a report of two positions worth 1030 and 1000 USD, both
\* bought for 100 USD: 50.7 % and 49.3 % of the value, 50 % each of the
\* investment.
C18_Witness ==
  /\ report.made
  /\ Len(summary_df) = 2
  /\ summary_df[1].CurrentValueUSD = 1030
  /\ summary_df[2].CurrentValueUSD = 1000
  /\ summary_df[1].InvestmentUSD = 100
  /\ summary_df[2].InvestmentUSD = 100
  /\ report.pct_of_total_value[1] = Pct(912271000, 17979710)
  /\ report.pct_of_total_investment[1] = Pct(88570000, 1771400)

------------------------------------------------------------------------------
(* Claims about rows with an invalid monetary field *)

\* Transfers.py: the rows of Transfers.xlsx whose amount is a number.
C19_ValidTransfers == SelectSeq(loaded, LAMBDA r : r.USD # NaN)

\* stockprice.py: the rows of portfolio.csv whose share count and cost are
\* numbers, and the tickers they name.
C19_ValidLot(r) == r.shares_held # NaN /\ r.avg_cost_usd # NaN
C19_ValidTickers ==
  {csv_file.rows[j].ticker : j \in {k \in 1..Len(csv_file.rows) : C19_ValidLot(csv_file.rows[k])}}

\* In Transfers.py the invalid rows are dropped before the first request, their
\* number is reported, the run goes on to its end, and only the dates of
\* valid rows are looked up and only valid rows get an output row.
C19_TransfersDropsInvalidRows ==
  tpc \in {"loop", "attempt", "return", "done"} =>
     /\ df = C19_ValidTransfers
     /\ removed_rows = Len(loaded) - Len(C19_ValidTransfers)
     /\ removed_rows > 0 => "removed rows" \in t_printed
     /\ \A d \in QueryDates :
          requests[d] > 0 => \E k \in 1..Len(df) : df[k].Date = d
     /\ DOMAIN rate_cache \subseteq {df[k].Date : k \in 1..Len(df)}
     /\ tpc = "done" => Len(inrCol) = Len(C19_ValidTransfers)

\* In stockprice.py likewise: once portfolio.csv is read only its valid rows
\* are kept and the dropped ones are reported, no price is requested for a
\* ticker of invalid rows only, and no such row is in the table.
C19_PortfolioDropsInvalidRows ==
  pc \notin {"idle", "read", "exited"} =>
     /\ \A j \in 1..Len(portfolio_df) : C19_ValidLot(portfolio_df[j])
     /\ Len(SelectSeq(csv_file.rows, C19_ValidLot)) < Len(csv_file.rows) =>
          "removed rows" \in printed
     /\ SeqRange(tickers) \subseteq C19_ValidTickers
     /\ \A t \in 1..MaxTickers : ind_requests[t] > 0 => t \in C19_ValidTickers
     /\ \A j \in 1..Len(summary_df) : summary_df[j].Ticker \in C19_ValidTickers

\* C19 as stated: an input row whose monetary field is non-numeric or missing
\* is dropped before any rate or price is fetched, the number of dropped rows
\* is reported, the run is not aborted, the dropped row gives neither a
\* lookup key nor an output row, and all other rows are kept.
C19_InvalidRowsAreDropped ==
  /\ C19_TransfersDropsInvalidRows
  /\ C19_PortfolioDropsInvalidRows

------------------------------------------------------------------------------
(* Claims about repeated calls of analyze_portfolio, checked under SpecPure *)

\* After a second or later call: with the arguments of the call before, the
\* table is the table of the call before; and whatever the call before was,
\* the table has the rows of this call's quoted positions and no others.
C20_SameInputsSameTable ==
  (pc = "analyzed" /\ earlier # <<>>) =>
     /\ (earlier[1].positions = portfolio_df /\ earlier[1].quotes = market_data) =>
          summary_df = earlier[1].table
     /\ Len(summary_df) = Len(Quoted)
     /\ \A j \in 1..Len(summary_df) :
          summary_df[j] = Metrics(Quoted[j], market_data[Quoted[j].ticker], USD_TO_INR)

\* A call leaves the positions table and the market-data map as they were.
C20_InputsUntouched ==
  pc = "analyze" => (portfolio_df' = portfolio_df /\ market_data' = market_data)

\* C20: analyze_portfolio is a pure function of its arguments: two calls
\* with identical arguments return identical tables, the table does not
\* depend on an earlier call, and the call modifies neither the positions
\* table nor the market-data map.
C20_AnalyzePortfolioIsPure ==
  []C20_SameInputsSameTable /\ [][C20_InputsUntouched]_vars

\* C20, witness: a second call with the arguments of the first has returned
\* its table of two rows; and the call before another had other arguments.
C20_Witness ==
  /\ pc = "analyzed"
  /\ earlier # <<>>
  /\ earlier[1].positions = portfolio_df
  /\ earlier[1].quotes = market_data
  /\ Len(earlier[1].table) = 2
  /\ Len(summary_df) = 2

------------------------------------------------------------------------------
(* Claims about the retry loops *)

\* The attempts of the running call that failed.
C21_Failed(k) == outcomes[k] \in {"raised", "empty"}

------------------------------------------------------------------------------
(* Claims about the batches of fetch_stock_data, checked under Spec *)

FetchStarted == pc \notin {"idle", "read", "exited", "start"}
BatchPhaseOver == FetchStarted /\ pc # "while" /\ i >= Len(tickers)

\* The number of batches of 10 the ticker list has, and the k-th of them.
C22_Count == (Len(tickers) + 9) \div 10
C22_Slice(k) ==
  [j \in 1..(IF 10 * k <= Len(tickers) THEN 10 ELSE Len(tickers) - 10 * (k - 1))
     |-> tickers[10 * (k - 1) + j]]

\* C22: the batches are the consecutive slices of 10 tickers of the list,
\* none empty and only the last one possibly smaller, entered in list
\* order; together they are the list, each ticker in one batch; a combined
\* request holds exactly the tickers of the batch being processed, and no
\* later batch has been requested before; and the code has slept the
\* inter-batch delay once after every batch but the last.
C22_BatchesOfTen ==
  FetchStarted =>
    /\ Len(batches) <= C22_Count
    /\ \A k \in 1..Len(batches) :
         /\ batches[k] = C22_Slice(k)
         /\ Len(batches[k]) >= 1
         /\ Len(batches[k]) <= 10
         /\ k < C22_Count => Len(batches[k]) = 10
    /\ BatchPhaseOver =>
         /\ Len(batches) = C22_Count
         /\ \A p \in 1..Len(tickers) :
              Cardinality({<<k, j>> \in (1..Len(batches)) \X (1..10) :
                             j <= Len(batches[k]) /\ 10 * (k - 1) + j = p
                             /\ batches[k][j] = tickers[p]}) = 1
         /\ batch_sleeps = C22_Count - 1
    /\ sent # <<>> => (pc = "while" /\ sent = batches[Len(batches)])
    /\ \A b \in BatchStarts :
         /\ batch_requests[b] > 0 => b < 10 * Len(batches)
         /\ b >= Len(tickers) => batch_requests[b] = 0
    /\ pc = "while" => batch_sleeps = Len(batches) - 1
    /\ (pc = "for" /\ i < Len(tickers)) => batch_sleeps = Len(batches)

\* C22, witness: 11 tickers; the first batch of 10 was processed, the code
\* slept once, and the request of the second batch, of the last ticker
\* alone, has been made.
C22_Witness ==
  /\ pc = "while"
  /\ Len(tickers) = 11
  /\ Len(batches) = 2
  /\ Len(batches[1]) = 10
  /\ sent = <<11>>
  /\ batch_sleeps = 1

\* The tickers whose batch has been processed: those of the batches before
\* position i, and those of the batch at i once its loop has ended.
C23_Processed ==
  {tickers[p] : p \in {q \in 1..Len(tickers) :
                         \/ q <= i
                         \/ /\ pc = "while"
                            /\ q <= i + 10
                            /\ batch_success \/ retry_count >= 3}}

C23_TimesFailed(t) == Cardinality({k \in 1..Len(failed_tickers) : failed_tickers[k] = t})

\* C23: once its batch has been processed a ticker is either a key of the
\* map or on the failed list, never both and never twice, also while the
\* failed tickers are retried one by one; and when fetch_stock_data has
\* returned, the keys of the map and the failed tickers reported are
\* disjoint and together the input tickers, so that the failed tickers are
\* exactly the input tickers that are no key of the map.
C23_ResolvedOrFailed ==
  /\ (FetchStarted /\ pc \in {"for", "while", "retry_for", "retry_while"}) =>
       \A t \in C23_Processed :
          /\ (t \in DOMAIN stock_data) # (t \in FailedSet)
          /\ C23_TimesFailed(t) <= 1
  /\ (FetchStarted /\ pc \in {"for", "while"}) =>
       \A t \in SeqRange(tickers) \ C23_Processed :
          t \notin DOMAIN stock_data /\ t \notin FailedSet
  /\ FetchOver =>
       /\ DOMAIN market_data \cap FailedSet = {}
       /\ DOMAIN market_data \cup FailedSet = SeqRange(tickers)
       /\ FailedSet = SeqRange(tickers) \ DOMAIN market_data
       /\ \A t \in FailedSet : C23_TimesFailed(t) = 1

\* C23, witness: fetch_stock_data has returned for 11 tickers; one that
\* failed in its batch was recorded by its individual retry, another one is
\* reported as failed, and the other nine are keys of the map.
C23_Witness ==
  /\ pc = "filter"
  /\ Len(tickers) = 11
  /\ failed_tickers = <<11>>
  /\ 1 \in DOMAIN market_data
  /\ via[1] = "individual"
  /\ Cardinality(DOMAIN market_data) = 10

------------------------------------------------------------------------------
(* Claims about termination, checked under SpecFetch *)

\* The fetch stage of the running script is over (or the script has ended
\* before it, on a fatal input error).
C24_FetchStageOver ==
  \/ pc # "idle" /\ (FetchOver \/ pc = "exited")
  \/ tpc # "idle" /\ (C8_StageOver \/ tpc = "exited")

\* At most 3 combined requests per batch, at most 3 individual requests per
\* ticker and only for tickers that failed in their batch, at most 3
\* requests per date.
C24_RequestsBounded ==
  /\ \A b \in BatchStarts : batch_requests[b] <= 3
  /\ \A t \in 1..MaxTickers :
       /\ ind_requests[t] <= 3
       /\ ind_requests[t] > 0 => t \in marked
  /\ \A d \in QueryDates : requests[d] <= 3

\* An iteration of a retry loop, that is a request, ends the loop by its
\* success or uses up one of the loop's attempts.
C24_IterationCounts ==
  /\ batch_requests' # batch_requests =>
       (batch_success' \/ retry_count' = retry_count + 1)
  /\ ind_requests' # ind_requests =>
       (batch_success' \/ retry_count' = retry_count + 1)
  /\ requests' # requests =>
       (tpc' = "return" \/ attempt' = attempt + 1)

\* C24: whatever the data source answers, the fetch stage of a run comes to
\* its end, after at most 3 combined requests per batch, 3 individual
\* requests per failed ticker and 3 requests per date; and no retry loop
\* iterates without succeeding or using up an attempt.
C24_FetchStagesTerminate ==
  /\ <>C24_FetchStageOver
  /\ []C24_RequestsBounded
  /\ [][C24_IterationCounts]_vars

\* C24, witness: fetch_stock_data has returned after 3 combined requests
\* for the first batch and 3 individual requests for its first ticker.
C24_Witness ==
  /\ pc = "filter"
  /\ batch_requests[0] = 3
  /\ ind_requests[1] = 3
  /\ 1 \in FailedSet

====
